---- MODULE Spec2Model ----
(***************************************************************************)
(* django-signalqueue, signalqueue/models.py: the database queue backend   *)
(* (SignalQuerySet / SignalManager over the EnqueuedSignal table) and the  *)
(* worker exception log (WorkerExceptionLogManager over WorkerExceptionLog).*)
(*                                                                         *)
(* Callers of the queue are concurrent workers.  They share the class      *)
(* attribute SignalQuerySet.queue_name the way the threads of one Python   *)
(* process do; every database statement (a SELECT, an INSERT, an UPDATE)   *)
(* is one atomic step, and the statements of different workers interleave  *)
(* freely, since the code takes no lock and opens no transaction.          *)
(***************************************************************************)
EXTENDS Integers, Sequences, FiniteSets, TLC

(* ------------------------------ bounds -------------------------------- *)
NumProcs == 2
NumValues == 2
NumBackends == 2
MaxClock == NumValues

Procs == 1..NumProcs
Values == 1..NumValues
Backends == 1..NumBackends
QueueNames == {"default", "other"}

VARIABLES
    rows,            \* the EnqueuedSignal table: pk (index) -> row
    clock,           \* datetime.now, read once per constructed model instance
    queue_name,      \* the class attribute SignalQuerySet.queue_name
    mgr_queue_name,  \* SignalManager._queue_name of every backend instance
    pc,              \* where every worker is inside its current call
    loc,             \* the locals of every worker's current call
    last,            \* the call completed last, with what it returned or raised
    popLog,          \* the pks of the rows returned by pop(), in return order
    logRows,         \* the WorkerExceptionLog table: pk (index) -> row
    insts,           \* the in-memory WorkerExceptionLog instance made for row pk
    exceptions,      \* WorkerExceptionLogManager._exceptions: key -> instance
    lpc,             \* where every thread is inside log_exception
    lloc,            \* the locals of every thread's log_exception call
    logLast,         \* the log_exception call completed last, with its result
    calls,           \* per identity, the log_exception calls that returned an entry
    started          \* the number of log_exception calls begun

qvars == <<rows, queue_name, mgr_queue_name, pc, loc, last, popLog>>
lvars == <<logRows, insts, exceptions, lpc, lloc, logLast, calls, started>>
vars == <<qvars, lvars, clock>>

(* ------------------------------ payloads ------------------------------ *)
\* A payload is an opaque text.  Payload 2 stands for a text holding a
\* non-ASCII character, every other payload for a text of ASCII characters.
Ascii(v) == v # 2

\* str(x) of a text read back from the table (a unicode object): the text
\* itself, or UnicodeEncodeError (0 here) when it is not ASCII.
Str(v) == IF Ascii(v) THEN v ELSE 0

(* ------------------------------ the table ----------------------------- *)
\* EnqueuedSignal: createdate, enqueued, queue_name, value (unique).
EnqueuedSignal(v, q, d) ==
    [value |-> v, queue_name |-> q, enqueued |-> TRUE, createdate |-> d]

\* The pk of the row holding value v, 0 when there is none (value is unique).
PkOfValue(t, v) ==
    IF \E i \in DOMAIN t : t[i].value = v
    THEN CHOOSE i \in DOMAIN t : t[i].value = v
    ELSE 0

\* order_by("createdate"): the pks of S, lowest creation time first.
RECURSIVE order_by(_, _)
order_by(t, S) ==
    IF S = {} THEN <<>>
    ELSE LET m == CHOOSE i \in S : \A j \in S : t[i].createdate <= t[j].createdate
         IN <<m>> \o order_by(t, S \ {m})

\* queued without its enqueued filter: every row of the queue.
queued_unfiltered(t, q, enq) ==
    order_by(t, {i \in DOMAIN t : t[i].queue_name = q})

\* SignalQuerySet.queued: filter(queue_name, enqueued).order_by("createdate").
queued(t, q, enq) ==
    order_by(t, {i \in DOMAIN t : t[i].queue_name = q /\ t[i].enqueued = enq})

\* SignalManager.count / SignalQuerySet.count.
count(t, q, enq) == Len(queued(t, q, enq))

\* The lookup with the flag inverted: get(queue_name=q, value=v, enqueued=False).
get_dequeued(t, q, v) ==
    IF \E i \in DOMAIN t : t[i].queue_name = q /\ t[i].value = v /\ ~t[i].enqueued
    THEN CHOOSE i \in DOMAIN t : t[i].queue_name = q /\ t[i].value = v /\ ~t[i].enqueued
    ELSE 0

\* get(queue_name=q, value=v, enqueued=True): the pk found, 0 for DoesNotExist.
get(t, q, v) ==
    IF \E i \in DOMAIN t : t[i].queue_name = q /\ t[i].value = v /\ t[i].enqueued
    THEN CHOOSE i \in DOMAIN t : t[i].queue_name = q /\ t[i].value = v /\ t[i].enqueued
    ELSE 0

\* The slice s[floor:ceil] of a sequence (0-based, ceil exclusive).
Slice(s, floor, ceil) ==
    LET hi == IF ceil < Len(s) THEN ceil ELSE Len(s)
    IN IF floor >= hi THEN <<>> ELSE [k \in 1..(hi - floor) |-> s[floor + k]]

(* ------------------------------ calls --------------------------------- *)
NoLoc == [queue |-> "default", value |-> 0, pk |-> 0, date |-> 0, floor |-> 0,
          ceil |-> 0, n0 |-> 0, m0 |-> 0, had |-> 0, args |-> <<>>]

NoRet == [tick |-> 0, again |-> FALSE, proc |-> 0, op |-> "none",
          queue |-> "default", arg |-> 0, kind |-> "none", val |-> 0,
          vals |-> <<>>, pk |-> 0, created |-> FALSE, n0 |-> 0, m0 |-> 0,
          had |-> 0, args |-> <<>>]

\* The locals of a call that only reads the table.
Reading(q) == [NoLoc EXCEPT !.queue = q]

\* The locals of a call on queue q with argument v, and what the caller could
\* have observed just before it: count(), count(enqueued=False) and the pk
\* of the row already holding v (0: none).
Pre(q, v) ==
    [NoLoc EXCEPT !.queue = q, !.value = v,
                  !.n0 = count(rows, q, TRUE), !.m0 = count(rows, q, FALSE),
                  !.had = PkOfValue(rows, v)]

Result(l, op, arg, kind) ==
    [NoRet EXCEPT !.op = op, !.queue = l.queue, !.arg = arg, !.kind = kind,
                  !.n0 = l.n0, !.m0 = l.m0, !.had = l.had, !.args = l.args]

\* The call of worker p returns (or raises) r.  last keeps the result (args
\* are the arguments values() was called with, as passed), tick
\* flips with every completed call, again tells that the call before it was
\* the same call (operation, queue and argument); popLog collects the pks
\* of the rows that pop() returned, in the order of the returns.
Return(p, r) ==
    /\ last' = [r EXCEPT !.proc = p, !.tick = 1 - last.tick,
                         !.again = (last.op = r.op /\ last.queue = r.queue
                                    /\ last.arg = r.arg)]
    /\ popLog' = IF r.op = "pop" /\ r.kind = "ok" THEN Append(popLog, r.pk) ELSE popLog
    /\ pc' = [pc EXCEPT ![p] = "idle"]
    /\ loc' = [loc EXCEPT ![p] = NoLoc]
    /\ UNCHANGED lvars

Goto(p, label, l) ==
    /\ pc' = [pc EXCEPT ![p] = label]
    /\ loc' = [loc EXCEPT ![p] = l]
    /\ UNCHANGED <<last, popLog>>
    /\ UNCHANGED lvars

(* ------------------------------ binding ------------------------------- *)
\* SignalManager._set_queue_name
SetQueueName(b, name) ==
    /\ mgr_queue_name' = [mgr_queue_name EXCEPT ![b] = name]
    /\ queue_name' = name
    /\ UNCHANGED <<rows, clock, pc, loc, last, popLog>>
    /\ UNCHANGED lvars

(* ------------------------------ ping ---------------------------------- *)
Ping(p) ==
    /\ pc[p] = "idle"
    /\ Return(p, [Result(Reading(queue_name), "ping", 0, "ok") EXCEPT !.val = 1])
    /\ UNCHANGED <<rows, clock, queue_name, mgr_queue_name>>

(* ------------------------------ push ---------------------------------- *)
\* get_or_create, first lookup: the row exists and is enqueued in this queue.
PushGetHit(p, v) ==
    /\ pc[p] = "idle"
    /\ get(rows, queue_name, v) # 0
    /\ Return(p, [Result(Pre(queue_name, v), "push", v, "ok")
                     EXCEPT !.pk = get(rows, queue_name, v)])
    /\ UNCHANGED <<rows, clock, queue_name, mgr_queue_name>>

\* get_or_create, first lookup: DoesNotExist.
PushGetMiss(p, v) ==
    /\ pc[p] = "idle"
    /\ clock < MaxClock
    /\ get(rows, queue_name, v) = 0
    /\ Goto(p, "push_new", Pre(queue_name, v))
    /\ UNCHANGED <<rows, clock, queue_name, mgr_queue_name>>

\* get_or_create builds the instance: createdate defaults to datetime.now().
PushNew(p) ==
    /\ pc[p] = "push_new"
    /\ clock' = clock + 1
    /\ Goto(p, "push_insert", [loc[p] EXCEPT !.date = clock + 1])
    /\ UNCHANGED <<rows, queue_name, mgr_queue_name>>

\* obj.save(force_insert=True) succeeds: no row holds the value.
PushInsert(p) ==
    /\ pc[p] = "push_insert"
    /\ PkOfValue(rows, loc[p].value) = 0
    /\ rows' = Append(rows, EnqueuedSignal(loc[p].value, loc[p].queue, loc[p].date))
    /\ Return(p, [Result(loc[p], "push", loc[p].value, "ok")
                     EXCEPT !.pk = Len(rows) + 1, !.created = TRUE])
    /\ UNCHANGED <<clock, queue_name, mgr_queue_name>>

\* obj.save(force_insert=True) raises IntegrityError: value is unique.
PushConflict(p) ==
    /\ pc[p] = "push_insert"
    /\ PkOfValue(rows, loc[p].value) # 0
    /\ Goto(p, "push_retry", loc[p])
    /\ UNCHANGED <<rows, clock, queue_name, mgr_queue_name>>

\* get_or_create, second lookup after the IntegrityError: found.
PushRetryHit(p) ==
    /\ pc[p] = "push_retry"
    /\ get(rows, loc[p].queue, loc[p].value) # 0
    /\ Return(p, [Result(loc[p], "push", loc[p].value, "ok")
                     EXCEPT !.pk = get(rows, loc[p].queue, loc[p].value)])
    /\ UNCHANGED <<rows, clock, queue_name, mgr_queue_name>>

\* get_or_create, second lookup: DoesNotExist, the IntegrityError is re-raised.
PushRetryMiss(p) ==
    /\ pc[p] = "push_retry"
    /\ get(rows, loc[p].queue, loc[p].value) = 0
    /\ Return(p, Result(loc[p], "push", loc[p].value, "IntegrityError"))
    /\ UNCHANGED <<rows, clock, queue_name, mgr_queue_name>>

(* ------------------------------ pop ----------------------------------- *)
\* out = self.queued()[0] on an empty result: IndexError.
PopEmpty(p) ==
    /\ pc[p] = "idle"
    /\ queued(rows, queue_name, TRUE) = <<>>
    /\ Return(p, Result(Pre(queue_name, 0), "pop", 0, "IndexError"))
    /\ UNCHANGED <<rows, clock, queue_name, mgr_queue_name>>

\* out = self.queued()[0]: the oldest enqueued row of the queue is loaded.
PopSelect(p) ==
    /\ pc[p] = "idle"
    /\ queued(rows, queue_name, TRUE) # <<>>
    /\ LET pk == Head(queued(rows, queue_name, TRUE))
       IN Goto(p, "pop_save", [Pre(queue_name, rows[pk].value) EXCEPT
                                  !.pk = pk, !.date = rows[pk].createdate])
    /\ UNCHANGED <<rows, clock, queue_name, mgr_queue_name>>

\* pop that deletes the row it returns instead of marking it: out.delete().
PopSave_delete(p) ==
    /\ pc[p] = "pop_save"
    /\ rows' = SubSeq(rows, 1, loc[p].pk - 1) \o SubSeq(rows, loc[p].pk + 1, Len(rows))
    /\ Return(p, [Result(loc[p], "pop", 0,
                         IF Ascii(loc[p].value) THEN "ok" ELSE "UnicodeEncodeError")
                     EXCEPT !.val = Str(loc[p].value), !.pk = loc[p].pk])
    /\ UNCHANGED <<clock, queue_name, mgr_queue_name>>

\* out.enqueued = False; out.save(): every field of the loaded instance is
\* written to the row with its pk.  Then str(out.value) is returned.
PopSave(p) ==
    /\ pc[p] = "pop_save"
    /\ rows' = [rows EXCEPT ![loc[p].pk] =
                   [value |-> loc[p].value, queue_name |-> loc[p].queue,
                    enqueued |-> FALSE, createdate |-> loc[p].date]]
    /\ Return(p, [Result(loc[p], "pop", 0,
                         IF Ascii(loc[p].value) THEN "ok" ELSE "UnicodeEncodeError")
                     EXCEPT !.val = Str(loc[p].value), !.pk = loc[p].pk])
    /\ UNCHANGED <<clock, queue_name, mgr_queue_name>>

(* ------------------------------ count --------------------------------- *)
Count(p, enq) ==
    /\ pc[p] = "idle"
    /\ Return(p, [Result(Reading(queue_name), "count", IF enq THEN 1 ELSE 0, "ok")
                     EXCEPT !.val = count(rows, queue_name, enq)])
    /\ UNCHANGED <<rows, clock, queue_name, mgr_queue_name>>

(* ------------------------------ clear --------------------------------- *)
\* clear without the queue filter: self.update(enqueued=False).
Clear_all(p) ==
    /\ pc[p] = "idle"
    /\ rows' = [i \in DOMAIN rows |-> [rows[i] EXCEPT !.enqueued = FALSE]]
    /\ Return(p, Result(Pre(queue_name, 0), "clear", 0, "ok"))
    /\ UNCHANGED <<clock, queue_name, mgr_queue_name>>

\* self.queued().update(enqueued=False): one UPDATE statement.
Clear(p) ==
    /\ pc[p] = "idle"
    /\ rows' = [i \in DOMAIN rows |->
                   IF rows[i].queue_name = queue_name /\ rows[i].enqueued
                   THEN [rows[i] EXCEPT !.enqueued = FALSE]
                   ELSE rows[i]]
    /\ Return(p, Result(Pre(queue_name, 0), "clear", 0, "ok"))
    /\ UNCHANGED <<clock, queue_name, mgr_queue_name>>

(* ------------------------------ values -------------------------------- *)
MaxIndex == 1
Indexes == (0 - 1)..MaxIndex

\* floor < 1 becomes 0; ceil >= 1 is kept and no count is taken.
ValuesSlice(p, floor, ceil) ==
    /\ pc[p] = "idle"
    /\ ceil >= 1
    /\ Goto(p, "values_list", [Reading(queue_name) EXCEPT
                                  !.floor = IF floor < 1 THEN 0 ELSE floor,
                                  !.ceil = ceil, !.args = <<floor, ceil>>])
    /\ UNCHANGED <<rows, clock, queue_name, mgr_queue_name>>

\* ceil < 1: ceil = self.count(), a query of its own.
ValuesCount(p, floor, ceil) ==
    /\ pc[p] = "idle"
    /\ ceil < 1
    /\ Goto(p, "values_list", [Reading(queue_name) EXCEPT
                                  !.floor = IF floor < 1 THEN 0 ELSE floor,
                                  !.ceil = count(rows, queue_name, TRUE),
                                  !.args = <<floor, ceil>>])
    /\ UNCHANGED <<rows, clock, queue_name, mgr_queue_name>>

\* values that consumes what it lists: the rows of the slice are marked
\* dequeued, as by out.update(enqueued=False).
ValuesList_consume(p) ==
    /\ pc[p] = "values_list"
    /\ LET out == Slice(queued(rows, queue_name, TRUE), loc[p].floor, loc[p].ceil)
           vs == [k \in DOMAIN out |-> rows[out[k]].value]
       IN /\ rows' = [i \in DOMAIN rows |->
                         IF \E k \in DOMAIN out : out[k] = i
                         THEN [rows[i] EXCEPT !.enqueued = FALSE]
                         ELSE rows[i]]
          /\ Return(p, IF \A k \in DOMAIN vs : Ascii(vs[k])
                       THEN [Result(loc[p], "values", 0, "ok") EXCEPT
                                !.vals = [k \in DOMAIN vs |-> Str(vs[k])]]
                       ELSE Result(loc[p], "values", 0, "UnicodeEncodeError"))
    /\ UNCHANGED <<clock, queue_name, mgr_queue_name>>

\* out = self.queued()[floor:ceil]; [str(value[0]) for value in
\* out.values_list('value')]: self.queued() reads queue_name again.
ValuesList(p) ==
    /\ pc[p] = "values_list"
    /\ LET out == Slice(queued(rows, queue_name, TRUE), loc[p].floor, loc[p].ceil)
           vs == [k \in DOMAIN out |-> rows[out[k]].value]
       IN Return(p, IF \A k \in DOMAIN vs : Ascii(vs[k])
                    THEN [Result(loc[p], "values", 0, "ok") EXCEPT
                             !.vals = [k \in DOMAIN vs |-> Str(vs[k])]]
                    ELSE Result(loc[p], "values", 0, "UnicodeEncodeError"))
    /\ UNCHANGED <<rows, clock, queue_name, mgr_queue_name>>

(* ====================================================================== *)
(* The worker exception log                                               *)
(* ====================================================================== *)
NumThreads == 2
MaxLogCalls == 5

Threads == 1..NumThreads

\* Texts are sequences of characters; "u00e9" stands for a non-ASCII one.
AsciiText(s) == \A k \in DOMAIN s : s[k] # "u00e9"

\* Exception classes (with their __module__ and __name__) and messages.
ExcTypes ==
    { [module |-> <<"a">>, name |-> <<"E">>],
      [module |-> <<"a", ".", "b">>, name |-> <<"E">>] }

Messages == { <<"x">>, <<"E", ":", "x">>, <<"u00e9">> }

Exceptions == [type : ExcTypes, msg : Messages]

\* A key of the class alone: "%s.%s" % (module, name).
make_key_type_only(key_type, key_value) ==
    key_type.module \o <<".">> \o key_type.name

\* WorkerExceptionLogManager._make_key: "%s.%s:%s" % (module, name, value)
make_key(key_type, key_value) ==
    key_type.module \o <<".">> \o key_type.name \o <<":">> \o key_value

\* A WorkerExceptionLog instance as create() builds it: count and viewed
\* take their field defaults, createdate is datetime.now().
WorkerExceptionLog(e, q, html, d) ==
    [exception_type |-> e.type.name, exception_module |-> e.type.module,
     queue_name |-> q, message |-> e.msg, html |-> html,
     count |-> 1, viewed |-> FALSE, createdate |-> d]

NoLogLoc == [exc |-> [type |-> [module |-> <<>>, name |-> <<>>], msg |-> <<>>],
             queue |-> "default", key |-> <<>>, entry |-> 0, tmp |-> 0,
             scoped |-> FALSE]

NoLogRet == [tick |-> 0, thread |-> 0, exc |-> NoLogLoc.exc, queue |-> "default",
             kind |-> "none", entry |-> 0, created |-> FALSE, scoped |-> FALSE]

LogResult(e, q, kind, entry, created) ==
    [NoLogRet EXCEPT !.exc = e, !.queue = q, !.kind = kind, !.entry = entry,
                     !.created = created]

\* log_exception returns the entry (kind "ok") or an exception leaves it.
\* scoped tells that the call was made by the except clause of log().
LogReturn(t, r) ==
    /\ logLast' = [r EXCEPT !.thread = t, !.tick = 1 - logLast.tick,
                            !.scoped = r.scoped \/ lloc[t].scoped]
    /\ calls' = IF r.kind = "ok" THEN [calls EXCEPT ![r.exc] = @ + 1] ELSE calls
    /\ lpc' = [lpc EXCEPT ![t] = "idle"]
    /\ lloc' = [lloc EXCEPT ![t] = NoLogLoc]
    /\ UNCHANGED qvars

LogGoto(t, label, l) ==
    /\ lpc' = [lpc EXCEPT ![t] = label]
    /\ lloc' = [lloc EXCEPT ![t] = l]
    /\ UNCHANGED <<logLast, calls>>
    /\ UNCHANGED qvars

\* str(exception) raises UnicodeEncodeError for a non-ASCII message.
LogUnicodeError(t, e, q, scoped) ==
    /\ lpc[t] = "idle"
    /\ started < MaxLogCalls
    /\ ~AsciiText(e.msg)
    /\ started' = started + 1
    /\ LogReturn(t, [LogResult(e, q, "UnicodeEncodeError", 0, FALSE)
                        EXCEPT !.scoped = scoped])
    /\ UNCHANGED <<logRows, insts, exceptions, clock>>

\* key = self._make_key(exc_type, str(exception)); key not in self._exceptions
LogMiss(t, e, q, scoped) ==
    /\ lpc[t] = "idle"
    /\ started < MaxLogCalls
    /\ AsciiText(e.msg)
    /\ make_key(e.type, e.msg) \notin DOMAIN exceptions
    /\ started' = started + 1
    /\ LogGoto(t, "render", [NoLogLoc EXCEPT !.exc = e, !.queue = q,
                                !.key = make_key(e.type, e.msg),
                                !.scoped = scoped])
    /\ UNCHANGED <<logRows, insts, exceptions, clock>>

\* key in self._exceptions
LogHit(t, e, q, scoped) ==
    /\ lpc[t] = "idle"
    /\ started < MaxLogCalls
    /\ AsciiText(e.msg)
    /\ make_key(e.type, e.msg) \in DOMAIN exceptions
    /\ started' = started + 1
    /\ LogGoto(t, "get", [NoLogLoc EXCEPT !.exc = e, !.queue = q,
                             !.key = make_key(e.type, e.msg),
                             !.scoped = scoped])
    /\ UNCHANGED <<logRows, insts, exceptions, clock>>

\* html = reporter.get_traceback_html()
LogRender(t) ==
    /\ lpc[t] = "render"
    /\ LogGoto(t, "create", lloc[t])
    /\ UNCHANGED <<logRows, insts, exceptions, clock, started>>

\* A render failure that is logged in its turn: an entry is stored for the
\* failed call before the failure leaves log_exception.
LogRenderFail_logged(t) ==
    /\ lpc[t] = "render"
    /\ clock' = clock + 1
    /\ LET obj == WorkerExceptionLog(lloc[t].exc, lloc[t].queue, "", clock + 1)
       IN /\ logRows' = Append(logRows, obj)
          /\ insts' = Append(insts, obj)
    /\ LogReturn(t, LogResult(lloc[t].exc, lloc[t].queue, "RenderError", 0, FALSE))
    /\ UNCHANGED <<exceptions, started>>

\* get_traceback_html() raises: the exception leaves log_exception.
LogRenderFail(t) ==
    /\ lpc[t] = "render"
    /\ LogReturn(t, LogResult(lloc[t].exc, lloc[t].queue, "RenderError", 0, FALSE))
    /\ UNCHANGED <<logRows, insts, exceptions, clock, started>>

\* exc_log_entry = self.create(...): the instance is built and inserted.
LogCreate(t) ==
    /\ lpc[t] = "create"
    /\ clock' = clock + 1
    /\ LET obj == WorkerExceptionLog(lloc[t].exc, lloc[t].queue, "traceback", clock + 1)
       IN /\ logRows' = Append(logRows, obj)
          /\ insts' = Append(insts, obj)
    /\ LogGoto(t, "cache", [lloc[t] EXCEPT !.entry = Len(logRows) + 1])
    /\ UNCHANGED <<exceptions, started>>

\* The created entry is returned without being put in the cache.
LogCache_forget(t) ==
    /\ lpc[t] = "cache"
    /\ exceptions' = exceptions
    /\ LogReturn(t, LogResult(lloc[t].exc, lloc[t].queue, "ok", lloc[t].entry, TRUE))
    /\ UNCHANGED <<logRows, insts, clock, started>>

\* self._exceptions.update({ key: exc_log_entry, }); return exc_log_entry
LogCache(t) ==
    /\ lpc[t] = "cache"
    /\ exceptions' = [k \in DOMAIN exceptions \cup {lloc[t].key} |->
                         IF k = lloc[t].key THEN lloc[t].entry ELSE exceptions[k]]
    /\ LogReturn(t, LogResult(lloc[t].exc, lloc[t].queue, "ok", lloc[t].entry, TRUE))
    /\ UNCHANGED <<logRows, insts, clock, started>>

\* exc_log_entry = self._exceptions[key]
LogGet(t) ==
    /\ lpc[t] = "get"
    /\ LogGoto(t, "incr_read", [lloc[t] EXCEPT !.entry = exceptions[lloc[t].key]])
    /\ UNCHANGED <<logRows, insts, exceptions, clock, started>>

\* WorkerExceptionLog.increment: self.count is read ...
LogIncrRead(t) ==
    /\ lpc[t] = "incr_read"
    /\ LogGoto(t, "incr_write", [lloc[t] EXCEPT !.tmp = insts[lloc[t].entry].count])
    /\ UNCHANGED <<logRows, insts, exceptions, clock, started>>

\* ... and self.count = (what was read) + 1 is stored.
LogIncrWrite(t) ==
    /\ lpc[t] = "incr_write"
    /\ insts' = [insts EXCEPT ![lloc[t].entry].count = lloc[t].tmp + 1]
    /\ LogGoto(t, "save", lloc[t])
    /\ UNCHANGED <<logRows, exceptions, clock, started>>

\* A save that files the entry under the queue of the present call.
LogSave_requeue(t) ==
    /\ lpc[t] = "save"
    /\ logRows' = [logRows EXCEPT ![lloc[t].entry] =
                      [insts[lloc[t].entry] EXCEPT !.queue_name = lloc[t].queue]]
    /\ LogReturn(t, LogResult(lloc[t].exc, lloc[t].queue, "ok", lloc[t].entry, FALSE))
    /\ UNCHANGED <<insts, exceptions, clock, started>>

\* exc_log_entry.save(): every field of the instance is written to its row.
LogSave(t) ==
    /\ lpc[t] = "save"
    /\ logRows' = [logRows EXCEPT ![lloc[t].entry] = insts[lloc[t].entry]]
    /\ LogReturn(t, LogResult(lloc[t].exc, lloc[t].queue, "ok", lloc[t].entry, FALSE))
    /\ UNCHANGED <<insts, exceptions, clock, started>>

\* A thread calling log_exception(e, q) directly.
LogCall(t) ==
    \/ \E e \in Exceptions, q \in QueueNames : LogUnicodeError(t, e, q, FALSE)
    \/ \E e \in Exceptions, q \in QueueNames : LogMiss(t, e, q, FALSE)
    \/ \E e \in Exceptions, q \in QueueNames : LogHit(t, e, q, FALSE)

\* The steps of a log_exception call after its cache lookup.
LogBody(t) ==
    \/ LogRender(t)
    \/ LogRenderFail(t)
    \/ LogCreate(t)
    \/ LogCache(t)
    \/ LogGet(t)
    \/ LogIncrRead(t)
    \/ LogIncrWrite(t)
    \/ LogSave(t)

LogStep(t) == LogCall(t) \/ LogBody(t)

(* ------------------------------ viewed -------------------------------- *)
\* An operator acknowledges entry i: viewed = True is written to the row in
\* the store (through another instance of the model, as the admin does); the
\* instance the cache holds is not touched.
Acknowledge(i) ==
    /\ ~logRows[i].viewed
    /\ logRows' = [logRows EXCEPT ![i].viewed = TRUE]
    /\ UNCHANGED <<insts, exceptions, lpc, lloc, logLast, calls, started, clock>>
    /\ UNCHANGED qvars

(* ------------------------------ log() --------------------------------- *)
MaxScopes == 4

\* The class Exception, the default exc_type of log().
ExceptionClass == [module |-> <<"exceptions">>, name |-> <<"Exception">>]

\* The classes a scope is configured with.
ScopeTypes == ExcTypes \cup {ExceptionClass}

\* "except exc_type, exc" matches an instance of exc_type: every exception is
\* an instance of Exception, and of its own class.
IsInstance(e, exc_type) == exc_type = ExceptionClass \/ e.type = exc_type

\* with log(queue_name=q, exc_type=exc_type): the block raises e and the
\* except clause matches: self.log_exception(exc, queue_name) is called
\* inside the clause, and what it raises leaves the scope.
LogScopeCatch(t, e, q, exc_type) ==
    /\ started < MaxScopes
    /\ IsInstance(e, exc_type)
    /\ \/ LogUnicodeError(t, e, q, TRUE)
       \/ LogMiss(t, e, q, TRUE)
       \/ LogHit(t, e, q, TRUE)

\* The block raises e and the except clause does not match: e leaves the
\* scope and log_exception is not called.
LogScopePass(t, e, q, exc_type) ==
    /\ lpc[t] = "idle"
    /\ ~IsInstance(e, exc_type)
    /\ LogReturn(t, [NoLogRet EXCEPT !.kind = "Uncaught", !.scoped = TRUE])
    /\ UNCHANGED <<logRows, insts, exceptions, clock, started>>

LogScope(t) ==
    \/ \E e \in Exceptions, q \in QueueNames, exc_type \in ScopeTypes :
           LogScopeCatch(t, e, q, exc_type)
    \/ \E e \in Exceptions, q \in QueueNames, exc_type \in ScopeTypes :
           LogScopePass(t, e, q, exc_type)

(* ------------------------------ Init ---------------------------------- *)
\* QueueBase.__init__ binds a backend to the queue name "default".
InitialQueueName == "default"

Init ==
    /\ rows = <<>>
    /\ clock = 0
    /\ queue_name = InitialQueueName
    /\ mgr_queue_name = [b \in Backends |-> InitialQueueName]
    /\ pc = [p \in Procs |-> "idle"]
    /\ loc = [p \in Procs |-> NoLoc]
    /\ last = NoRet
    /\ popLog = <<>>
    /\ logRows = <<>>
    /\ insts = <<>>
    /\ exceptions = <<>>
    /\ lpc = [t \in Threads |-> "idle"]
    /\ lloc = [t \in Threads |-> NoLogLoc]
    /\ logLast = NoLogRet
    /\ calls = [e \in Exceptions |-> 0]
    /\ started = 0

(* ------------------------------ Next ---------------------------------- *)
Step(p) ==
    \/ Ping(p)
    \/ \E v \in Values : PushGetHit(p, v)
    \/ \E v \in Values : PushGetMiss(p, v)
    \/ PushNew(p)
    \/ PushInsert(p)
    \/ PushConflict(p)
    \/ PushRetryHit(p)
    \/ PushRetryMiss(p)
    \/ PopEmpty(p)
    \/ PopSelect(p)
    \/ PopSave(p)
    \/ \E enq \in BOOLEAN : Count(p, enq)
    \/ Clear(p)
    \/ \E floor \in Indexes, ceil \in Indexes : ValuesSlice(p, floor, ceil)
    \/ \E floor \in Indexes, ceil \in Indexes : ValuesCount(p, floor, ceil)
    \/ ValuesList(p)

Bind == \E b \in Backends, name \in QueueNames : SetQueueName(b, name)

Next ==
    \/ Bind
    \/ \E p \in Procs : Step(p)
    \/ \E t \in Threads : LogStep(t)
    \/ \E t \in Threads : LogScope(t)

Spec == Init /\ [][Next]_vars

\* One caller with one backend: calls run one after the other, none overlaps
\* another, the backend is rebound between calls, and values() is called
\* with its default arguments.  The second lookup of get_or_create then
\* never finds a row (PushRetryHit needs an insert by someone else).
Idle == \A p \in Procs : pc[p] = "idle"

NextSeq ==
    \/ Idle /\ \E name \in QueueNames : SetQueueName(1, name)
    \/ Ping(1)
    \/ \E v \in Values : PushGetHit(1, v)
    \/ \E v \in Values : PushGetMiss(1, v)
    \/ PushNew(1)
    \/ PushInsert(1)
    \/ PushConflict(1)
    \/ PushRetryMiss(1)
    \/ PopEmpty(1)
    \/ PopSelect(1)
    \/ PopSave(1)
    \/ \E enq \in BOOLEAN : Count(1, enq)
    \/ Clear(1)
    \/ ValuesCount(1, 0, 0 - 1)
    \/ ValuesList(1)

SpecSeq == Init /\ [][NextSeq]_vars

\* Concurrent workers racing on the table: every worker pushes, pops and
\* clears, and their statements interleave.  Calls that only read the table
\* and rebinding are left to Spec.
RaceStep(p) ==
    \/ \E v \in Values : PushGetHit(p, v)
    \/ \E v \in Values : PushGetMiss(p, v)
    \/ PushNew(p)
    \/ PushInsert(p)
    \/ PushConflict(p)
    \/ PushRetryHit(p)
    \/ PushRetryMiss(p)
    \/ PopEmpty(p)
    \/ PopSelect(p)
    \/ PopSave(p)
    \/ Clear(p)

NextRace == \E p \in Procs : RaceStep(p)

SpecRace == Init /\ [][NextRace]_vars

\* One caller, one queue, and only push and pop: the histories of FIFO order.
NextFifo ==
    \/ \E v \in Values : PushGetHit(1, v)
    \/ \E v \in Values : PushGetMiss(1, v)
    \/ PushNew(1)
    \/ PushInsert(1)
    \/ PushConflict(1)
    \/ PushRetryMiss(1)
    \/ PopEmpty(1)
    \/ PopSelect(1)
    \/ PopSave(1)

SpecFifo == Init /\ [][NextFifo]_vars

\* Several backend instances, each held by one caller: caller p makes its
\* calls through the SignalManager BackendOf(p).  Calls run one after the
\* other and a backend is (re)bound between calls.
BackendOf(p) == ((p - 1) % NumBackends) + 1

Alone(p) == \A r \in Procs \ {p} : pc[r] = "idle"

BindStep(p) ==
    \/ \E v \in Values : PushGetHit(p, v)
    \/ \E v \in Values : PushGetMiss(p, v)
    \/ PushNew(p)
    \/ PushInsert(p)
    \/ PushConflict(p)
    \/ PushRetryMiss(p)
    \/ PopEmpty(p)
    \/ PopSelect(p)
    \/ PopSave(p)
    \/ Count(p, TRUE)
    \/ Clear(p)
    \/ ValuesCount(p, 0, 0 - 1)
    \/ ValuesList(p)

NextBind ==
    \/ Idle /\ Bind
    \/ \E p \in Procs : Alone(p) /\ BindStep(p)

SpecBind == Init /\ [][NextBind]_vars

\* One caller and one queue: push and pop, and values() with every pair of
\* arguments.
NextValues ==
    \/ \E v \in Values : PushGetHit(1, v)
    \/ \E v \in Values : PushGetMiss(1, v)
    \/ PushNew(1)
    \/ PushInsert(1)
    \/ PushConflict(1)
    \/ PushRetryMiss(1)
    \/ PopEmpty(1)
    \/ PopSelect(1)
    \/ PopSave(1)
    \/ \E floor \in Indexes, ceil \in Indexes : ValuesSlice(1, floor, ceil)
    \/ \E floor \in Indexes, ceil \in Indexes : ValuesCount(1, floor, ceil)
    \/ ValuesList(1)

SpecValues == Init /\ [][NextValues]_vars

\* One worker pushing and popping while another caller clears the queue:
\* the statements of pop() interleave with clear(), and no two pops overlap.
NextPopClear ==
    \/ \E v \in Values : PushGetHit(1, v)
    \/ \E v \in Values : PushGetMiss(1, v)
    \/ PushNew(1)
    \/ PushInsert(1)
    \/ PushConflict(1)
    \/ PushRetryMiss(1)
    \/ PopEmpty(1)
    \/ PopSelect(1)
    \/ PopSave(1)
    \/ Clear(2)

SpecPopClear == Init /\ [][NextPopClear]_vars

\* One thread logging: log_exception calls run one after the other.
NextLogSeq == LogStep(1)

SpecLogSeq == Init /\ [][NextLogSeq]_vars

\* The threads of one process logging one exception identity (a class and an
\* ASCII message) under one queue name; their statements interleave, and the
\* traceback always renders.
RaceExc == [type |-> [module |-> <<"a">>, name |-> <<"E">>], msg |-> <<"x">>]

LogRaceStep(t) ==
    \/ LogMiss(t, RaceExc, "default", FALSE)
    \/ LogHit(t, RaceExc, "default", FALSE)
    \/ LogRender(t)
    \/ LogCreate(t)
    \/ LogCache(t)
    \/ LogGet(t)
    \/ LogIncrRead(t)
    \/ LogIncrWrite(t)
    \/ LogSave(t)

NextLogRace == \E t \in Threads : LogRaceStep(t)

SpecLogRace == Init /\ [][NextLogRace]_vars

\* One thread logging occurrences of one exception identity, and an operator
\* who acknowledges the entry between two calls.
NextLogAck ==
    \/ \E q \in QueueNames : LogMiss(1, RaceExc, q, FALSE)
    \/ \E q \in QueueNames : LogHit(1, RaceExc, q, FALSE)
    \/ LogBody(1)
    \/ lpc[1] = "idle" /\ \E i \in DOMAIN logRows : Acknowledge(i)

SpecLogAck == Init /\ [][NextLogAck]_vars

\* One thread whose failures are all raised by blocks run inside log().
NextScope == LogScope(1) \/ LogBody(1)

SpecScope == Init /\ [][NextScope]_vars

(* ====================================================================== *)
(* The properties                                                         *)
(* ====================================================================== *)
\* This step completes a call: last' is its result, last the call before.
Done == last'.tick # last.tick

\* The pks of the rows of table t in queue q whose enqueued flag is enq.
Flagged(t, q, enq) == {i \in DOMAIN t : t[i].queue_name = q /\ t[i].enqueued = enq}

\* The pks of the rows of table t holding value v.
Holding(t, v) == {i \in DOMAIN t : t[i].value = v}

\* C1: concurrent pops have at most one winner per item: no row is
\* returned by two pop() calls, whatever the interleaving.
C1_PopDistinct == \A i, j \in DOMAIN popLog : popLog[i] = popLog[j] => i = j

\* C2: FIFO per queue: in a sequential history of push and pop calls on one
\* queue, the k-th successful pop() returns the k-th value pushed (the row
\* created k-th, which has pk k).
C2_Fifo == \A k \in DOMAIN popLog : rows[popLog[k]].value = rows[k].value

\* C3: idempotent push: when push(v) created the row and push(v) is called
\* again on the same queue right after it, the second call returns the same
\* row, creates none, and count() is 1 more than before the first call.
C3_Step ==
    (Done /\ last'.op = "push" /\ last'.again /\ last.created)
        => /\ last'.kind = "ok"
           /\ last'.pk = last.pk
           /\ ~last'.created
           /\ Len(rows') = last.pk
           /\ Cardinality(Flagged(rows', last'.queue, TRUE)) = last.n0 + 1

C3_IdempotentPush == [][C3_Step]_vars

C3_Witness ==
    /\ last.op = "push" /\ last.again /\ last.kind = "ok" /\ ~last.created
    /\ last.pk = Len(rows) /\ last.n0 = 2

\* C4: push(v) on a queue where a row with value v already exists, enqueued
\* or not, returns that row, creates no row and raises nothing.
C4_PushExisting ==
    (last.op = "push" /\ last.had # 0 /\ rows[last.had].queue_name = last.queue)
        => (last.kind = "ok" /\ last.pk = last.had /\ ~last.created)

\* C5: values are unique across the store: push(v) on queue B while a row
\* with value v exists under another queue name A retrieves that row; the
\* store keeps exactly one row with v and the call does not fail.
C5_PushOtherQueue ==
    (last.op = "push" /\ last.had # 0 /\ rows[last.had].queue_name # last.queue)
        => /\ last.kind = "ok" /\ last.pk = last.had
           /\ Cardinality(Holding(rows, last.arg)) = 1

\* C6: pop marks, never deletes: a successful pop() returning v lowers
\* count(enqueued=True) by 1, raises count(enqueued=False) by 1 and leaves
\* the row with value v stored with enqueued = false; and no step of any
\* call removes a stored row or changes its value, queue or creation time.
C6_Step ==
    /\ (Done /\ last'.op = "pop" /\ last'.kind = "ok")
           => /\ Cardinality(Flagged(rows', last'.queue, TRUE)) = last'.n0 - 1
              /\ Cardinality(Flagged(rows', last'.queue, FALSE)) = last'.m0 + 1
              /\ last'.pk \in DOMAIN rows'
              /\ rows'[last'.pk].value = last'.val
              /\ ~rows'[last'.pk].enqueued
    /\ Len(rows') >= Len(rows)
    /\ \A i \in DOMAIN rows :
           /\ rows'[i].value = rows[i].value
           /\ rows'[i].queue_name = rows[i].queue_name
           /\ rows'[i].createdate = rows[i].createdate

C7_Step ==
    (Done /\ last'.op = "pop")
        => /\ (Flagged(rows, last'.queue, TRUE) = {}) <=> (last'.kind = "IndexError")
           /\ last'.kind = "IndexError" => rows' = rows

C7_EmptyQueue == [][C7_Step]_vars

C7_Witness ==
    /\ last.op = "pop" /\ last.kind = "IndexError"
    /\ Flagged(rows, last.queue, FALSE) # {}

\* C8: after clear() count(enqueued=True) is 0, every row that was enqueued
\* is still stored with its flag false (count(enqueued=False) grows by their
\* number), no other row changes, and the call right after it on the same
\* queue finds the queue empty: pop() raises the empty-queue condition,
\* values() returns nothing and count() returns 0.
C8_Step ==
    /\ (Done /\ last'.op = "clear")
           => /\ Flagged(rows', last'.queue, TRUE) = {}
              /\ Flagged(rows', last'.queue, FALSE) =
                     Flagged(rows, last'.queue, FALSE) \cup Flagged(rows, last'.queue, TRUE)
              /\ Cardinality(Flagged(rows', last'.queue, FALSE)) = last'.m0 + last'.n0
              /\ DOMAIN rows' = DOMAIN rows
              /\ \A i \in DOMAIN rows :
                     rows'[i] = [rows[i] EXCEPT !.enqueued =
                                    rows[i].enqueued /\ rows[i].queue_name # last'.queue]
    /\ (Done /\ last.op = "clear" /\ last'.queue = last.queue)
           => /\ last'.op = "pop" => last'.kind = "IndexError"
              /\ last'.op = "values" => (last'.kind = "ok" /\ last'.vals = <<>>)
              /\ (last'.op = "count" /\ last'.arg = 1) => last'.val = 0

C9_ConcurrentPush ==
    (last.op = "push" /\ last.had = 0)
        => /\ last.kind = "ok"
           /\ Cardinality(Holding(rows, last.arg)) = 1
           /\ last.pk \in Holding(rows, last.arg)

\* The rows of the exception log that record exception e: same module, type
\* and message.
EntriesOf(e) ==
    {i \in DOMAIN logRows :
        /\ logRows[i].exception_module = e.type.module
        /\ logRows[i].exception_type = e.type.name
        /\ logRows[i].message = e.msg}

LogDone == logLast'.tick # logLast.tick

\* C11: scoped-log suppression: when the block inside log() raises an
\* exception matching the configured class, the exception is routed through
\* log_exception once (an entry is created or incremented and returned) and
\* nothing leaves the scope: the code after the scope goes on.
C11_ScopedSuppression ==
    (logLast.scoped /\ logLast.kind # "Uncaught")
        => /\ logLast.kind = "ok"
           /\ logLast.entry \in DOMAIN logRows

\* The values of the enqueued rows of queue q in table t, oldest first.
QueuedValues(t, q) == [k \in DOMAIN queued(t, q, TRUE) |-> t[queued(t, q, TRUE)[k]].value]

\* C12: values(floor, ceil) returns the enqueued values of the queue, oldest
\* first, at the indices [floor, ceil), where ceil <= 0 means through the end
\* and floor < 0 means 0; and after values() with its default arguments the
\* next call, when it is a pop(), returns the first element of the list (the
\* empty-queue condition when the list is empty).
C12_Step ==
    /\ (Done /\ last'.op = "values")
           => /\ last'.kind = "ok"
              /\ LET all == QueuedValues(rows, last'.queue)
                     lo == IF last'.args[1] < 0 THEN 0 ELSE last'.args[1]
                     hi == IF last'.args[2] <= 0 THEN Len(all) ELSE last'.args[2]
                 IN last'.vals = SubSeq(all, lo + 1, IF hi < Len(all) THEN hi ELSE Len(all))
    /\ (Done /\ last.op = "values" /\ last.kind = "ok" /\ last.args = <<0, 0 - 1>>
             /\ last'.op = "pop" /\ last'.queue = last.queue)
           => IF last.vals = <<>>
              THEN last'.kind = "IndexError"
              ELSE last'.kind = "ok" /\ last'.val = last.vals[1]

C12_Values == [][C12_Step]_vars

\* C13: ping(), values() and count() are non-destructive: no step of these
\* calls changes, adds or removes a stored row (value, queue name, enqueued
\* flag, creation time) or rebinds the queue, so what later pop() calls
\* return is what they would return without them.
C13_Step ==
    /\ (Done /\ last'.op \in {"ping", "values", "count"})
           => (rows' = rows /\ queue_name' = queue_name)
    /\ (\E p \in Procs : pc[p] = "idle" /\ pc'[p] = "values_list")
           => (rows' = rows /\ queue_name' = queue_name)

C13_NonDestructive == [][C13_Step]_vars

C13_Witness ==
    /\ last.op = "values" /\ last.kind = "ok" /\ last.vals # <<>>
    /\ Cardinality(Flagged(rows, last.queue, TRUE)) = Len(last.vals)
    /\ Len(rows) = NumValues

\* C14: queue binding and isolation: a call made through a backend works on
\* the queue name that backend was bound to, whatever the other backends were
\* bound to since: the call reads that queue, and every row it writes or
\* creates is of that queue.
C14_Step ==
    Done => LET bound == mgr_queue_name[BackendOf(last'.proc)]
            IN /\ last'.queue = bound
               /\ \A i \in DOMAIN rows' :
                      (i \notin DOMAIN rows \/ rows'[i] # rows[i])
                          => rows'[i].queue_name = bound

C14_Isolation == [][C14_Step]_vars

\* C15: concurrent log_exception calls for one identity are mutually
\* exclusive in their check-then-increment-or-create sequence: whatever the
\* interleaving, once every call has returned the log holds exactly one row
\* for the identity and its stored count is the number of calls made.
C15_MutualExclusion ==
    ((\A t \in Threads : lpc[t] = "idle") /\ started > 0)
        => /\ Len(logRows) = 1
           /\ logRows[1].count = started

\* C16: a secondary failure never loops: when rendering the traceback fails
\* in log_exception for an unseen identity, the failure leaves the call (and
\* the scope of log() around it): the thread is back outside log_exception,
\* no log_exception call is begun for the failure, no entry is stored, and
\* the cache is unchanged, so the identity is still unseen.
C16_Step ==
    (LogDone /\ logLast'.kind = "RenderError")
        => /\ lpc'[logLast'.thread] = "idle"
           /\ started' = started
           /\ logRows' = logRows
           /\ insts' = insts
           /\ exceptions' = exceptions
           /\ make_key(logLast'.exc.type, logLast'.exc.msg) \notin DOMAIN exceptions'
           /\ EntriesOf(logLast'.exc) = {}

C16_NoLoop == [][C16_Step]_vars

C16_Witness ==
    /\ logLast.kind = "RenderError" /\ logLast.scoped
    /\ lpc[logLast.thread] = "idle"
    /\ logRows # <<>>
    /\ make_key(logLast.exc.type, logLast.exc.msg) \notin DOMAIN exceptions

\* The exception (class and message) that row r of the log records.
IdentityOf(r) ==
    [type |-> [module |-> r.exception_module, name |-> r.exception_type],
     msg |-> r.message]

\* C17: an identity goes Unseen -> Logged(count = 1) -> Logged(count = N): a
\* row is created only for an identity that has no row and is not in the
\* cache, and with count 1; a later log_exception for it raises the stored
\* count by exactly 1; a stored count is at least 1 and never decreases; and
\* an identity in the cache stays there, bound to the same entry.
C17_Step ==
    /\ Len(logRows') >= Len(logRows)
    /\ \A i \in DOMAIN logRows' \ DOMAIN logRows :
           /\ logRows'[i].count = 1
           /\ EntriesOf(IdentityOf(logRows'[i])) = {}
           /\ make_key(IdentityOf(logRows'[i]).type, IdentityOf(logRows'[i]).msg)
                  \notin DOMAIN exceptions
    /\ \A i \in DOMAIN logRows :
           /\ logRows[i].count >= 1
           /\ logRows'[i].count >= logRows[i].count
           /\ IdentityOf(logRows'[i]) = IdentityOf(logRows[i])
    /\ \A k \in DOMAIN exceptions :
           k \in DOMAIN exceptions' /\ exceptions'[k] = exceptions[k]
    /\ (LogDone /\ logLast'.kind = "ok")
           => /\ make_key(logLast'.exc.type, logLast'.exc.msg) \in DOMAIN exceptions'
              /\ EntriesOf(logLast'.exc) = {logLast'.entry}
              /\ logLast'.created => logRows'[logLast'.entry].count = 1
              /\ ~logLast'.created =>
                     logRows'[logLast'.entry].count = logRows[logLast'.entry].count + 1

C17_StateMachine == [][C17_Step]_vars

C17_Witness ==
    /\ logLast.kind = "ok" /\ ~logLast.created
    /\ logRows[logLast.entry].count = 3
    /\ Len(logRows) = 2

\* C18: a repeat log_exception for a logged identity changes only the count
\* of the stored entry: message, html, viewed, queue_name and createdate
\* keep the values the store held just before the call; an acknowledgement
\* (viewed = true) written to the store between two occurrences is still
\* there after the repeat is saved.
C18_Step ==
    (LogDone /\ logLast'.kind = "ok" /\ ~logLast'.created)
        => /\ DOMAIN logRows' = DOMAIN logRows
           /\ \A i \in DOMAIN logRows :
                  logRows'[i] = IF i = logLast'.entry
                                THEN [logRows[i] EXCEPT !.count = @ + 1]
                                ELSE logRows[i]

C18_RepeatOnlyCount == [][C18_Step]_vars

\* C19: each item is consumed at most once across pop and clear: whatever
\* the interleaving of a pop() with clear() calls, the item pop() returns is
\* one that was still enqueued when pop() marked it: clear() had not marked
\* it dequeued before, so its flag is flipped to false by one operation only.
C19_Step ==
    (Done /\ last'.op = "pop" /\ last'.kind = "ok") => rows[last'.pk].enqueued

C19_ConsumedOnce == [][C19_Step]_vars

\* C20: the dedup identity does not include the queue name: a log_exception
\* for an identity already logged under another queue name creates no entry;
\* it raises the count of the one entry of the identity by 1 and leaves the
\* entry's queue_name that of the first occurrence.
C20_Step ==
    (LogDone /\ logLast'.kind = "ok"
         /\ \E i \in EntriesOf(logLast'.exc) : logRows[i].queue_name # logLast'.queue)
        => /\ ~logLast'.created
           /\ Len(logRows') = Len(logRows)
           /\ EntriesOf(logLast'.exc) = {logLast'.entry}
           /\ logRows'[logLast'.entry].count = logRows[logLast'.entry].count + 1
           /\ logRows'[logLast'.entry].queue_name = logRows[logLast'.entry].queue_name

C20_IdentityWithoutQueue == [][C20_Step]_vars

C20_Witness ==
    /\ logLast.kind = "ok" /\ ~logLast.created
    /\ logRows[logLast.entry].queue_name # logLast.queue
    /\ logRows[logLast.entry].count = 2
    /\ Cardinality(EntriesOf(logLast.exc)) = 1

====
